---- MODULE Spec2Model ----
(***************************************************************************)
(* Model of backend/main.py: a FastAPI handler layer over two SQLite       *)
(* tables (users, clicks) reached through SQLAlchemy sessions.             *)
(*                                                                         *)
(* Every handler is a sequence of database round trips.  The session is    *)
(* created with autocommit=False on the pysqlite driver, which issues      *)
(* BEGIN only in front of the first INSERT/UPDATE/DELETE: each SELECT      *)
(* reads the latest committed state, and the statements flushed by         *)
(* db.commit() run in one write transaction.  A handler is therefore one   *)
(* atomic step per query plus one atomic step for its commit; FastAPI runs *)
(* "def" handlers on a thread pool, so the steps of different requests     *)
(* interleave.  db.refresh() after a commit is folded into the commit step.*)
(*                                                                         *)
(* Times are integers in milliseconds.                                     *)
(***************************************************************************)
EXTENDS Integers, Sequences, FiniteSets

\* ------------------------------------------------------------------ bounds
NumWorkers == 2        \* request threads of the concurrent specifications
MaxClicks == 3         \* click rows in the specifications without a clock
MaxBoardClicks == 4    \* click rows in the leaderboard specification
MaxCrudClicks == 2     \* click rows when every handler runs concurrently
MaxRateClicks == 6     \* click rows in the rate-limiter specifications
MaxClock == 2          \* clock ticks in the rate-limiter specifications
MaxLimit == 3          \* largest ?limit= value tried

\* ------------------------------------------------- constants of the program
RecentLimit == 5       \* .limit(5)
FifthIndex == 5        \* recent_clicks[4], 0-based, is the 5th row
RateWindowMs == 500    \* time_diff < 0.5 (seconds)
HourMs == 3600 * 1000              \* one hour of UTC offset
DayMs == 24 * HourMs               \* one calendar day
TickMs == RateWindowMs \div 2      \* granularity of the model's clock
StaleLagMs == 2 * RateWindowMs     \* how far behind a dishonest client timestamp is

Names == {"a", "b", "c"}
ConcNames == {"a", "b"}
RateNames == {"a"}
Workers == 1..NumWorkers
SeqWorkers == {1}
\* UTC offsets of the server's local time zone (datetime.fromtimestamp is local)
TzOffsets == {0 - HourMs, 0, HourMs}
LimitInputs == (0 - 1)..MaxLimit

\* --------------------------------------------------------------- the state
VARIABLES
    users,      \* table users: set of [id, name, total_clicks]
    clicks,     \* table clicks: set of [id, user_name, timestamp]
    now,        \* datetime.utcnow() of the server, ms
    tz,         \* UTC offset of the server's local zone, ms
    reqs,       \* per request thread: the handler it runs and its locals
    resp,       \* the response completed last
    arrival,    \* history: server time at which click id i was inserted
    completed,  \* history: create_click requests answered 200, per userName
    deleted,    \* history: ids delete_user answered 200 for
    twin        \* two stores fed the same requests (client timestamps differ)

vars == <<users, clicks, now, tz, reqs, resp, arrival, completed, deleted, twin>>

NoRow == [id |-> 0, name |-> "", total_clicks |-> 0]
Idle == [op |-> "idle", pc |-> "idle", name |-> "", id |-> 0, ts |-> 0, row |-> NoRow]
NoResp == [op |-> "none", status |-> 0, name |-> "", id |-> 0, n |-> 0, prev_id |-> 0]
EmptyStore == [users |-> {}, clicks |-> {}, status |-> 0]

Max(S) == CHOOSE x \in S : \A y \in S : x >= y
Min2(a, b) == IF a <= b THEN a ELSE b

\* ------------------------------------------------------------ the database
\* INTEGER PRIMARY KEY without AUTOINCREMENT: the largest rowid plus one.
NextId(rows) == IF rows = {} THEN 1 ELSE Max({r.id : r \in rows}) + 1

\* db.query(User).filter(User.name == n).first()
FirstByName(us, n) ==
    LET m == {u \in us : u.name = n}
    IN IF m = {} THEN NoRow ELSE CHOOSE u \in m : \A v \in m : u.id <= v.id

\* db.query(User).filter(User.id == i).first()
FirstById(us, i) ==
    LET m == {u \in us : u.id = i}
    IN IF m = {} THEN NoRow ELSE CHOOSE u \in m : TRUE

\* name = Column(String, unique=True): would INSERT/UPDATE of name n into a
\* row with id i break the unique index?
NameTaken(us, n, i) == \E u \in us : u.name = n /\ u.id # i

\* User(name=n) inserted: total_clicks defaults to 0
InsertUser(us, n) == us \cup {[id |-> NextId(us), name |-> n, total_clicks |-> 0]}

\* The response record of a completed request.  n flips with every response;
\* prev_id is history: the id answered by the response just before, when both
\* are create_user responses for the same name and that one was a 200.
Response(o, st, nm, i) ==
    [op |-> o, status |-> st, name |-> nm, id |-> i, n |-> 1 - resp.n,
     prev_id |-> IF o = "create_user" /\ resp.op = o /\ resp.name = nm /\ resp.status = 200
                 THEN resp.id ELSE 0]

\* The state after start-up on a server whose zone is one of `offsets`:
\* Base.metadata.create_all on a fresh database file.
InitAt(offsets) ==
    /\ users = {}
    /\ clicks = {}
    /\ now = 0
    /\ tz \in offsets
    /\ reqs = [w \in Workers \cup SeqWorkers |-> Idle]
    /\ resp = NoResp
    /\ arrival = <<>>
    /\ completed = [n \in Names |-> 0]
    /\ deleted = {}
    /\ twin = [r \in 1..2 |-> EmptyStore]

\* --------------------------------------------------------------- create_user
\* Mutant of CreateUserQuery: the existence check is skipped.
CreateUserQueryNoCheck(w, n) ==
    /\ reqs[w].pc = "idle"
    /\ reqs' = [reqs EXCEPT ![w] = [Idle EXCEPT !.op = "create_user", !.pc = "commit", !.name = n]]
    /\ UNCHANGED <<users, clicks, now, tz, resp, arrival, completed, deleted, twin>>

\* line 98-100: the existence check; an existing row is returned at once.
CreateUserQuery(w, n) ==
    /\ reqs[w].pc = "idle"
    /\ LET existing == FirstByName(users, n)
       IN IF existing # NoRow
          THEN /\ resp' = Response("create_user", 200, n, existing.id)
               /\ UNCHANGED reqs
          ELSE /\ reqs' = [reqs EXCEPT ![w] = [Idle EXCEPT !.op = "create_user", !.pc = "commit", !.name = n]]
               /\ UNCHANGED resp
    /\ UNCHANGED <<users, clicks, now, tz, arrival, completed, deleted, twin>>

\* line 102-106: INSERT and COMMIT.  The unique index on users.name rejects
\* a second row of the same name with IntegrityError, which nothing catches:
\* the request ends in a 500 and the session is rolled back on close.
CreateUserCommit(w) ==
    /\ reqs[w].op = "create_user" /\ reqs[w].pc = "commit"
    /\ LET n == reqs[w].name
       IN IF NameTaken(users, n, 0)
          THEN /\ resp' = Response("create_user", 500, n, 0)
               /\ UNCHANGED users
          ELSE /\ users' = InsertUser(users, n)
               /\ resp' = Response("create_user", 200, n, NextId(users))
    /\ reqs' = [reqs EXCEPT ![w] = Idle]
    /\ UNCHANGED <<clicks, now, tz, arrival, completed, deleted, twin>>

\* --------------------------------------------------------------- update_user
\* line 125-127: look the row up by id; 404 when there is none.
UpdateUserQuery(w, i, n) ==
    /\ reqs[w].pc = "idle"
    /\ LET db_user == FirstById(users, i)
       IN IF db_user = NoRow
          THEN /\ resp' = Response("update_user", 404, n, i)
               /\ UNCHANGED reqs
          ELSE /\ reqs' = [reqs EXCEPT ![w] = [Idle EXCEPT !.op = "update_user", !.pc = "commit",
                                                           !.name = n, !.id = i, !.row = db_user]]
               /\ UNCHANGED resp
    /\ UNCHANGED <<users, clicks, now, tz, arrival, completed, deleted, twin>>

\* UPDATE users SET name = n WHERE id = i; only the name column is written.
RenameUser(us, i, n) == {IF u.id = i THEN [u EXCEPT !.name = n] ELSE u : u \in us}

\* line 129-132: db_user.name = n; commit; refresh.  An unchanged name flushes
\* nothing and the refresh fails when the row is gone; otherwise the UPDATE
\* matches no row (StaleDataError), breaks the unique index (IntegrityError)
\* or renames the row.  No click row is touched.
UpdateUserCommit(w) ==
    /\ reqs[w].op = "update_user" /\ reqs[w].pc = "commit"
    /\ LET i == reqs[w].id
           n == reqs[w].name
           cur == FirstById(users, i)
       IN IF cur = NoRow \/ (reqs[w].row.name # n /\ NameTaken(users, n, i))
          THEN /\ resp' = Response("update_user", 500, n, i)
               /\ UNCHANGED users
          ELSE /\ users' = IF reqs[w].row.name = n THEN users ELSE RenameUser(users, i, n)
               /\ resp' = Response("update_user", 200, IF reqs[w].row.name = n THEN cur.name ELSE n, i)
    /\ reqs' = [reqs EXCEPT ![w] = Idle]
    /\ UNCHANGED <<clicks, now, tz, arrival, completed, deleted, twin>>

\* --------------------------------------------------------------- delete_user
\* line 137-139: look the row up by id; 404 when there is none.
DeleteUserQuery(w, i) ==
    /\ reqs[w].pc = "idle"
    /\ LET user == FirstById(users, i)
       IN IF user = NoRow
          THEN /\ resp' = Response("delete_user", 404, "", i)
               /\ UNCHANGED reqs
          ELSE /\ reqs' = [reqs EXCEPT ![w] = [Idle EXCEPT !.op = "delete_user", !.pc = "commit",
                                                           !.id = i, !.row = user]]
               /\ UNCHANGED resp
    /\ UNCHANGED <<users, clicks, now, tz, arrival, completed, deleted, twin>>

\* Mutant of DeleteRow: the WHERE clause compares with <= instead of =.
DeleteRowUpTo(us, i) == {u \in us : u.id > i}

\* DELETE FROM users WHERE id = i; no cascade to clicks.
DeleteRow(us, i) == {u \in us : u.id # i}

\* line 141-143: db.delete(user); commit.  A DELETE that matches no row is
\* only warned about by the ORM, so the request still answers 200.
DeleteUserCommit(w) ==
    /\ reqs[w].op = "delete_user" /\ reqs[w].pc = "commit"
    /\ users' = DeleteRow(users, reqs[w].id)
    /\ resp' = Response("delete_user", 200, "", reqs[w].id)
    /\ deleted' = deleted \cup {reqs[w].id}
    /\ reqs' = [reqs EXCEPT ![w] = Idle]
    /\ UNCHANGED <<clicks, now, tz, arrival, completed, twin>>

\* -------------------------------------------------------------- create_click
\* datetime.fromtimestamp(ms / 1000): the client's epoch milliseconds as a
\* naive datetime in the server's LOCAL zone.
FromTimestamp(ms, offset) == ms + offset

RECURSIVE ClicksByTimeDesc(_)
\* ORDER BY timestamp DESC (rows of equal timestamp in rowid order)
ClicksByTimeDesc(S) ==
    IF S = {} THEN <<>>
    ELSE LET r == CHOOSE x \in S : \A y \in S :
                      \/ x.timestamp > y.timestamp
                      \/ (x.timestamp = y.timestamp /\ x.id <= y.id)
         IN <<r>> \o ClicksByTimeDesc(S \ {r})

\* LIMIT k: SQLite treats a negative LIMIT as no limit.
Limit(s, k) == IF k < 0 THEN s ELSE SubSeq(s, 1, Min2(k, Len(s)))

\* line 156-158
RecentClicks(cs, n) ==
    Limit(ClicksByTimeDesc({c \in cs : c.user_name = n}), RecentLimit)

\* line 160-163: the 429 decision, taken against utcnow()
RateLimited(cs, n, t) ==
    LET recent_clicks == RecentClicks(cs, n)
    IN /\ Len(recent_clicks) >= RecentLimit
       /\ t - recent_clicks[FifthIndex].timestamp < RateWindowMs

\* line 166-170: the row added to the session
InsertClick(cs, n, ms, offset) ==
    cs \cup {[id |-> NextId(cs), user_name |-> n, timestamp |-> FromTimestamp(ms, offset)]}

\* line 173: user.total_clicks += 1 on the loaded object, flushed as
\* UPDATE users SET total_clicks = <value read + 1> WHERE id = <id read>
WriteCounter(us, row) ==
    {IF u.id = row.id THEN [u EXCEPT !.total_clicks = row.total_clicks + 1] ELSE u : u \in us}

\* Requests in flight that will insert a click row when they commit.
PendingClicks == Cardinality({w \in DOMAIN reqs : reqs[w].op = "create_click"})

\* line 151-153: look the user up by name; 404 when there is none.
CreateClickQuery(w, n, ms, cap) ==
    /\ reqs[w].pc = "idle"
    /\ Cardinality(clicks) + PendingClicks < cap
    /\ LET user == FirstByName(users, n)
       IN IF user = NoRow
          THEN /\ resp' = Response("create_click", 404, n, 0)
               /\ UNCHANGED reqs
          ELSE /\ reqs' = [reqs EXCEPT ![w] = [Idle EXCEPT !.op = "create_click", !.pc = "check",
                                                           !.name = n, !.ts = ms, !.row = user]]
               /\ UNCHANGED resp
    /\ UNCHANGED <<users, clicks, now, tz, arrival, completed, deleted, twin>>

\* line 155-163: read the 5 most recent clicks and the clock; 429 or go on.
CreateClickCheck(w) ==
    /\ reqs[w].op = "create_click" /\ reqs[w].pc = "check"
    /\ IF RateLimited(clicks, reqs[w].name, now)
       THEN /\ resp' = Response("create_click", 429, reqs[w].name, 0)
            /\ reqs' = [reqs EXCEPT ![w] = Idle]
       ELSE /\ reqs' = [reqs EXCEPT ![w].pc = "commit"]
            /\ UNCHANGED resp
    /\ UNCHANGED <<users, clicks, now, tz, arrival, completed, deleted, twin>>

\* line 165-177: INSERT the click, UPDATE the counter, COMMIT.  When the row
\* read at line 151 is gone the UPDATE matches nothing (StaleDataError) and
\* the transaction, click row included, is rolled back.
CreateClickCommit(w) ==
    /\ reqs[w].op = "create_click" /\ reqs[w].pc = "commit"
    /\ IF FirstById(users, reqs[w].row.id) = NoRow
       THEN /\ resp' = Response("create_click", 500, reqs[w].name, 0)
            /\ UNCHANGED <<users, clicks, arrival, completed>>
       ELSE /\ clicks' = InsertClick(clicks, reqs[w].name, reqs[w].ts, tz)
            /\ users' = WriteCounter(users, reqs[w].row)
            /\ arrival' = Append(arrival, now)
            /\ completed' = [completed EXCEPT ![reqs[w].name] = @ + 1]
            /\ resp' = Response("create_click", 200, reqs[w].name, NextId(clicks))
    /\ reqs' = [reqs EXCEPT ![w] = Idle]
    /\ UNCHANGED <<now, tz, deleted, twin>>

\* Timestamps a client may put in the request body: its honest clock, or one
\* that lags behind.
ClientTimes == {now, now - StaleLagMs}

\* The server's clock advances.
Tick ==
    /\ now < MaxClock * TickMs
    /\ now' = now + TickMs
    /\ UNCHANGED <<users, clicks, tz, reqs, resp, arrival, completed, deleted, twin>>

\* ------------------------------------------- two runs of the same requests
\* create_user run to completion on one store (line 94-106).
UserRequest(store, n) ==
    IF FirstByName(store.users, n) # NoRow
    THEN [store EXCEPT !.status = 200]
    ELSE [store EXCEPT !.users = InsertUser(store.users, n), !.status = 200]

\* create_click run to completion on one store at server time t (line 147-177).
ClickRequest(store, n, ms, t, offset) ==
    LET user == FirstByName(store.users, n)
    IN IF user = NoRow THEN [store EXCEPT !.status = 404]
       ELSE IF RateLimited(store.clicks, n, t) THEN [store EXCEPT !.status = 429]
       ELSE [users |-> WriteCounter(store.users, user),
             clicks |-> InsertClick(store.clicks, n, ms, offset),
             status |-> 200]

\* Both runs receive create_user(n).
TwinCreateUser(n) ==
    /\ twin' = [r \in 1..2 |-> UserRequest(twin[r], n)]
    /\ UNCHANGED <<users, clicks, now, tz, reqs, resp, arrival, completed, deleted>>

\* Both runs receive create_click for n at the same server time; only the
\* timestamp field of the request body differs between the runs.
TwinCreateClick(n, ms1, ms2) ==
    /\ \A r \in 1..2 : Cardinality(twin[r].clicks) < MaxRateClicks
    /\ twin' = [r \in 1..2 |-> ClickRequest(twin[r], n, IF r = 1 THEN ms1 ELSE ms2, now, tz)]
    /\ UNCHANGED <<users, clicks, now, tz, reqs, resp, arrival, completed, deleted>>

\* ------------------------------------------------------- read-only handlers
\* line 108-112: get_users
GetUsers(us) == us

\* line 114-120: get_user
GetUser(us, i) ==
    LET user == FirstById(us, i)
    IN IF user = NoRow THEN [status |-> 404, row |-> NoRow] ELSE [status |-> 200, row |-> user]

RECURSIVE UsersByClicksAsc(_)
\* Mutant of UsersByClicksDesc: ORDER BY total_clicks without DESC.
UsersByClicksAsc(S) ==
    IF S = {} THEN <<>>
    ELSE LET r == CHOOSE x \in S : \A y \in S :
                      \/ x.total_clicks < y.total_clicks
                      \/ (x.total_clicks = y.total_clicks /\ x.id <= y.id)
         IN <<r>> \o UsersByClicksAsc(S \ {r})

RECURSIVE UsersByClicksDesc(_)
\* ORDER BY total_clicks DESC (rows of equal count in rowid order)
UsersByClicksDesc(S) ==
    IF S = {} THEN <<>>
    ELSE LET r == CHOOSE x \in S : \A y \in S :
                      \/ x.total_clicks > y.total_clicks
                      \/ (x.total_clicks = y.total_clicks /\ x.id <= y.id)
         IN <<r>> \o UsersByClicksDesc(S \ {r})

\* line 195-202: get_leaderboard
GetLeaderboard(us, k) ==
    LET rows == Limit(UsersByClicksDesc(us), k)
    IN [j \in 1..Len(rows) |-> [name |-> rows[j].name, total_clicks |-> rows[j].total_clicks]]

\* Mutant of RankOf: the filter compares with >= instead of >.
RankOfGeq(us, user) == Cardinality({u \in us : u.total_clicks >= user.total_clicks}) + 1

\* line 214: the rank query
RankOf(us, user) == Cardinality({u \in us : u.total_clicks > user.total_clicks}) + 1

\* line 217-221: clicks stamped at or after midnight of the current UTC day
TodayClicks(cs, n, t) ==
    Cardinality({c \in cs : c.user_name = n /\ c.timestamp >= t - (t % DayMs)})

\* line 206-229: get_user_stats
GetUserStats(us, cs, n, t) ==
    LET user == FirstByName(us, n)
    IN IF user = NoRow
       THEN [status |-> 404, name |-> n, total_clicks |-> 0, rank |-> 0, today_clicks |-> 0]
       ELSE [status |-> 200, name |-> user.name, total_clicks |-> user.total_clicks,
             rank |-> RankOf(us, user), today_clicks |-> TodayClicks(cs, n, t)]

\* ------------------------------------------------------- the specifications
\* Spec: every handler that writes, on NumWorkers concurrent request threads.
Next ==
    \E w \in Workers :
        \/ \E n \in ConcNames : CreateUserQuery(w, n)
        \/ CreateUserCommit(w)
        \/ \E i \in 1..Cardinality(ConcNames), n \in ConcNames : UpdateUserQuery(w, i, n)
        \/ UpdateUserCommit(w)
        \/ \E i \in 1..Cardinality(ConcNames) : DeleteUserQuery(w, i)
        \/ DeleteUserCommit(w)
        \/ \E n \in ConcNames : CreateClickQuery(w, n, now, MaxCrudClicks)
        \/ CreateClickCheck(w)
        \/ CreateClickCommit(w)

Init == InitAt({0})

\* SpecSeq: every handler that writes, one request at a time.
NextSeq ==
    \E w \in SeqWorkers :
        \/ \E n \in ConcNames : CreateUserQuery(w, n)
        \/ CreateUserCommit(w)
        \/ \E i \in 1..Cardinality(ConcNames), n \in ConcNames : UpdateUserQuery(w, i, n)
        \/ UpdateUserCommit(w)
        \/ \E i \in 1..Cardinality(ConcNames) : DeleteUserQuery(w, i)
        \/ DeleteUserCommit(w)
        \/ \E n \in ConcNames : CreateClickQuery(w, n, now, MaxClicks)
        \/ CreateClickCheck(w)
        \/ CreateClickCommit(w)

SpecSeq == Init /\ [][NextSeq]_vars

\* SpecBoard: registration and click recording, one request at a time, with
\* enough users for ties and gaps on the leaderboard.
NextBoard ==
    \E w \in SeqWorkers :
        \/ \E n \in Names : CreateUserQuery(w, n)
        \/ CreateUserCommit(w)
        \/ \E n \in Names : CreateClickQuery(w, n, now, MaxBoardClicks)
        \/ CreateClickCheck(w)
        \/ CreateClickCommit(w)

SpecBoard == Init /\ [][NextBoard]_vars

\* SpecRate: one user's clicks against the clock, one request at a time, on a
\* server in any of the zones, from clients with honest or lagging timestamps.
NextRate ==
    \/ \E w \in SeqWorkers :
        \/ \E n \in RateNames : CreateUserQuery(w, n)
        \/ CreateUserCommit(w)
        \/ \E n \in RateNames, ms \in ClientTimes : CreateClickQuery(w, n, ms, MaxRateClicks)
        \/ CreateClickCheck(w)
        \/ CreateClickCommit(w)
    \/ Tick

InitRate == InitAt(TzOffsets)

SpecRate == InitRate /\ [][NextRate]_vars

\* SpecTwin: two stores receive the same requests at the same server times.
NextTwin ==
    \/ \E n \in RateNames : TwinCreateUser(n)
    \/ \E n \in RateNames, ms1 \in ClientTimes, ms2 \in ClientTimes : TwinCreateClick(n, ms1, ms2)
    \/ Tick

SpecTwin == Init /\ [][NextTwin]_vars

\* SpecClicks: registration and click recording only, on concurrent threads.
NextClicks ==
    \E w \in Workers :
        \/ \E n \in ConcNames : CreateUserQuery(w, n)
        \/ CreateUserCommit(w)
        \/ \E n \in ConcNames : CreateClickQuery(w, n, now, MaxClicks)
        \/ CreateClickCheck(w)
        \/ CreateClickCommit(w)

SpecClicks == Init /\ [][NextClicks]_vars

Spec == Init /\ [][Next]_vars

\* ================================================================= claims
Quiescent == \A w \in DOMAIN reqs : reqs[w].pc = "idle"
ClickRows(n) == {c \in clicks : c.user_name = n}
Answered == resp'.n # resp.n

\* C1 (as claimed; refuted under SpecSeq): whenever no request is in flight,
\* every user row's total_clicks equals the number of click rows that carry
\* the user's name.
C1_CounterEqualsClickRows ==
    Quiescent => \A u \in users : u.total_clicks = Cardinality(ClickRows(u.name))

\* C2 (as claimed; refuted under SpecClicks): once every create_click for a
\* user has completed, and N of them were answered 200, the user's
\* total_clicks is N and the table holds N click rows of that name, for every
\* interleaving of the requests' steps.
C2_CounterEqualsCompleted ==
    \A u \in users :
        (\A w \in DOMAIN reqs : ~(reqs[w].op = "create_click" /\ reqs[w].name = u.name))
        => /\ u.total_clicks = completed[u.name]
           /\ Cardinality(ClickRows(u.name)) = completed[u.name]

\* C3: a create_user answered right after another create_user for the same
\* name returns 200 with the same id, adds no row, changes no row, and leaves
\* exactly one row of that name.
C3_CreateUserIdempotent ==
    [][(Answered /\ resp.op = "create_user" /\ resp'.op = "create_user" /\ resp'.name = resp.name)
       => /\ resp.status = 200 /\ resp'.status = 200
          /\ resp'.id = resp.id
          /\ users' = users
          /\ Cardinality({u \in users' : u.name = resp.name}) = 1
          /\ \E u \in users' : u.name = resp.name /\ u.id = resp'.id]_vars

\* C3 witness: a second create_user in a row for one name has been answered,
\* in a store that holds another user and a click.
C3_Witness ==
    /\ resp.op = "create_user" /\ resp.prev_id # 0
    /\ Cardinality(users) = 2 /\ clicks # {}

\* C4 (as claimed; refuted under Spec): a create_user request never ends in an
\* error; it answers 200 with the row that carries the name.
C4_NoErrorOnDuplicateName ==
    resp.op = "create_user"
    => /\ resp.status = 200
       /\ \E u \in users : u.name = resp.name /\ u.id = resp.id

\* The server time at which the 5th most recent click of n was recorded.
FifthArrival(n) ==
    LET ids == {c.id : c \in ClickRows(n)}
    IN arrival[CHOOSE i \in ids : Cardinality({j \in ids : j >= i}) = RecentLimit]

\* C5 (as claimed; refuted under SpecRate): a create_click for a user with
\* fewer than 5 clicks is never answered 429; with 5 or more it is answered
\* 429 exactly when less than 0.5 s have elapsed since the 5th most recent
\* click was recorded.
C5_RateLimitByElapsedTime ==
    [][\A w \in SeqWorkers :
          (reqs[w].op = "create_click" /\ reqs[w].pc = "check" /\ reqs'[w].pc # "check")
          => LET n == reqs[w].name
                 rejected == Answered /\ resp'.op = "create_click" /\ resp'.status = 429
             IN IF Cardinality(ClickRows(n)) < RecentLimit
                THEN ~rejected /\ reqs'[w].pc = "commit"
                ELSE rejected <=> (now - FifthArrival(n) < RateWindowMs)]_vars

\* C6 (as claimed; refuted under SpecTwin): two runs of the same requests at
\* the same server times, differing only in the client timestamps, get the
\* same answer to every request.
C6_SameOutcomes == twin[1].status = twin[2].status

\* C7: get_user_stats answers rank = (number of rows) - (number of rows with
\* at most the user's count) + 1; users with equal counts get equal ranks, a
\* strictly greater count gets a strictly smaller rank, and every user with
\* the highest count has rank 1.
C7_CompetitionRank ==
    \A u \in users :
        LET su == GetUserStats(users, clicks, u.name, now)
        IN /\ su.status = 200 /\ su.total_clicks = u.total_clicks
           /\ su.rank = Cardinality(users)
                        - Cardinality({x \in users : x.total_clicks <= u.total_clicks}) + 1
           /\ ((\A x \in users : x.total_clicks <= u.total_clicks) => su.rank = 1)
           /\ \A v \in users :
                LET sv == GetUserStats(users, clicks, v.name, now)
                IN /\ (u.total_clicks = v.total_clicks => su.rank = sv.rank)
                   /\ (u.total_clicks > v.total_clicks => su.rank < sv.rank)

\* C7 witness: two users tied at the top, both ranked 1, and a third user with
\* fewer clicks ranked 3.
C7_Witness ==
    \E u, v, x \in users :
        /\ u # v /\ u.total_clicks = v.total_clicks /\ u.total_clicks > x.total_clicks
        /\ GetUserStats(users, clicks, u.name, now).rank = 1
        /\ GetUserStats(users, clicks, v.name, now).rank = 1
        /\ GetUserStats(users, clicks, x.name, now).rank = 3

\* C8 (as amended): a delete_user that finds no row answers 404 and leaves both
\* tables unchanged; one that finds the row removes exactly that row and
\* nothing else, after which get_user for the id answers 404 and get_users
\* omits it; and an absent id comes back only through a create_user that
\* inserts a new row under it.
C8_DeleteRemovesExactlyThatRow ==
    [][/\ (Answered /\ resp'.op = "delete_user" /\ resp'.status = 404)
          => /\ GetUser(users, resp'.id).status = 404
             /\ users' = users /\ clicks' = clicks
       /\ (Answered /\ resp'.op = "delete_user" /\ resp'.status = 200)
          => /\ GetUser(users, resp'.id).status = 200
             /\ users' \subseteq users
             /\ users \ users' = {GetUser(users, resp'.id).row}
             /\ clicks' = clicks
             /\ GetUser(users', resp'.id).status = 404
             /\ \A r \in GetUsers(users') : r.id # resp'.id
       /\ (Answered /\ resp'.op = "delete_user") => resp'.status \in {200, 404}
       /\ \A i \in 1..Cardinality(Names) :
            (GetUser(users, i).status = 404 /\ GetUser(users', i).status = 200)
            => (Answered /\ resp'.op = "create_user" /\ resp'.status = 200 /\ resp'.id = i)]_vars

\* C8 witness: a delete_user has just answered 200, another user row is still
\* there, and a click row of the deleted user's name is left behind.
C8_Witness ==
    /\ resp.op = "delete_user" /\ resp.status = 200
    /\ users # {}
    /\ \E c \in clicks : FirstByName(users, c.user_name) = NoRow

\* C8 (as claimed; refuted under SpecSeq): once delete_user has answered 200
\* for an id, every later get_user for that id answers 404 and every later
\* get_users omits it.
C8_DeletedIdStaysGone ==
    \A i \in deleted :
        /\ GetUser(users, i).status = 404
        /\ \A r \in GetUsers(users) : r.id # i

\* The entries of a leaderboard are in non-increasing order, and every user
\* left out has at most the count of every user returned.
BoardSorted(board) ==
    /\ \A j \in 1..(Len(board) - 1) : board[j].total_clicks >= board[j + 1].total_clicks
    /\ \A u \in users :
        (\A j \in 1..Len(board) : board[j].name # u.name)
        => \A j \in 1..Len(board) : u.total_clicks <= board[j].total_clicks
    /\ \A j \in 1..Len(board) :
        \E u \in users : u.name = board[j].name /\ u.total_clicks = board[j].total_clicks

\* C9 (as amended): get_leaderboard(limit) is sorted as above and holds
\* min(limit, number of users) entries when limit >= 0, and every user when
\* limit is negative.
C9_LeaderboardOrderAndLength ==
    \A k \in LimitInputs :
        LET board == GetLeaderboard(users, k)
        IN /\ BoardSorted(board)
           /\ Len(board) = IF k < 0 THEN Cardinality(users) ELSE Min2(k, Cardinality(users))

\* C9 witness: three users, a limit of 2 that leaves one out, and a strict
\* drop between the two entries returned.
C9_Witness ==
    /\ Cardinality(users) = 3
    /\ Len(GetLeaderboard(users, 2)) = 2
    /\ GetLeaderboard(users, 2)[1].total_clicks > GetLeaderboard(users, 2)[2].total_clicks
    /\ \E u \in users : u.total_clicks < GetLeaderboard(users, 2)[2].total_clicks

\* C9 (as claimed; refuted under SpecBoard): with users registered, the
\* leaderboard is sorted and holds min(limit, number of users) entries for
\* every limit.
C9_LengthIsMinOfLimit ==
    users # {} => \A k \in LimitInputs :
        /\ BoardSorted(GetLeaderboard(users, k))
        /\ Len(GetLeaderboard(users, k)) = Min2(k, Cardinality(users))

\* C10 (as claimed; refuted under SpecClicks): from one state to the next no
\* user row's total_clicks decreases, and it changes only in the step in which
\* a create_click for that user's name is answered 200.
C10_CounterMonotone ==
    [][\A u \in users : \A v \in users' :
          v.id = u.id
          => /\ v.total_clicks >= u.total_clicks
             /\ (v.total_clicks # u.total_clicks
                 => (Answered /\ resp'.op = "create_click" /\ resp'.status = 200
                     /\ resp'.name = u.name))]_vars
====
